---------------------------- MODULE Spec2Model ----------------------------
(***************************************************************************)
(* SessionScribe (src/session_scribe.py): a Discord bot that records one   *)
(* row of the `sessions` table per membership interval of a user and, in   *)
(* memory, the number of messages the user sent per channel.               *)
(*                                                                         *)
(* Every handler is a coroutine.  It runs without interruption up to an    *)
(* `await` of a store call, and resumes when the store has answered; other *)
(* handlers run in between.  A handler waiting at an await is an element   *)
(* of `tasks`; one action models the code from the dispatch of the event   *)
(* to the first await, and one action each stretch from the answer of an   *)
(* awaited call to the next await (or the end of the handler).             *)
(***************************************************************************)
EXTENDS Integers, Sequences, FiniteSets, TLC

(***************************************************************************)
(* Bounds of the model.                                                    *)
(***************************************************************************)
MaxRows  == 3   \* rows the sessions table may hold
MaxTasks == 2   \* handlers suspended at an await at the same time
MaxTime  == 4   \* greatest value utcnow() returns
MaxMessages == 3   \* messages of members handled in one run

(***************************************************************************)
(* The platform: guilds, their members and channels.                       *)
(***************************************************************************)
Guilds == {1, 2}
GuildList == <<1, 2>>
Users == {1, 2, 9}
Bots == {9}
\* The <<guild, user>> pairs that may join and leave.  User 9, a bot account,
\* is a member of every guild throughout.
Population == {<<1, 1>>, <<1, 2>>, <<2, 1>>}
ChannelsOf(g) == IF g = 1 THEN {11, 12} ELSE {21}
Channels == {11, 12, 21}
ChannelName(c) == IF c = 11 THEN "general" ELSE IF c = 12 THEN "random" ELSE "lobby"

\* leave_time of an open session: None in Python, NULL in the table.
Null == 0
\* An empty dict.
EmptyMap == [x \in {} |-> 0]
\* A nullable column holding a dict: <<>> is NULL, <<d>> is the dict d.
NoCounts == <<>>
Some(d) == <<d>>

VARIABLES
    sessions,          \* the table `sessions`: a sequence of rows, id = index
    message_counters,  \* guild_id -> user_id -> channel_id -> count
    tasks,             \* the handlers suspended at an await
    present,           \* the <<guild, user>> pairs of Population that are members
    clock,             \* the time the next utcnow() returns
    sent,              \* history: the non-bot messages handled per member and
                       \* channel since on_member_join or on_ready last reset
                       \* the member's counter (or the process started)
    handled,           \* history: the non-bot messages handled so far
    booted,            \* history: the members on_ready has dealt with since
                       \* they last joined or left
    last               \* the last step taken and what it printed or sent

vars == <<sessions, message_counters, tasks, present, clock, sent, handled,
          booted, last>>

(***************************************************************************)
(* str() and int() of the small identifiers of the model.                  *)
(***************************************************************************)
Digit == <<"0", "1", "2", "3", "4", "5", "6", "7", "8", "9">>

RECURSIVE Str(_)
Str(n) == IF n < 10 THEN Digit[n + 1] ELSE Str(n \div 10) \o Digit[(n % 10) + 1]

\* int(s) of a decimal string
ParseInt(s) == CHOOSE n \in 0..99 : Str(n) = s

\* utcnow().isoformat(): the table orders the timestamps by time, and no two
\* calls return the same time.
utcnow == clock

Elapse == clock <= MaxTime /\ clock' = clock + 1

(***************************************************************************)
(* The nested defaultdict.                                                 *)
(***************************************************************************)
\* message_counters[g]: reading a missing guild creates it, empty.
GuildCounters(mc, g) == IF g \in DOMAIN mc THEN mc[g] ELSE EmptyMap

Put(f, k, v) == [x \in DOMAIN f \cup {k} |-> IF x = k THEN v ELSE f[x]]

Drop(f, k) == [x \in DOMAIN f \ {k} |-> f[x]]

ClearCounterZeroed(mc, g, u) ==
    Put(mc, g, Put(GuildCounters(mc, g), u, [c \in ChannelsOf(g) |-> 0]))

\* message_counters[g][u].clear()
ClearCounter(mc, g, u) == Put(mc, g, Put(GuildCounters(mc, g), u, EmptyMap))

\* u in message_counters[g]
HasCounter(mc, g, u) == u \in DOMAIN GuildCounters(mc, g)

IncrementOnce(mc, g, u, c) == Put(mc, g, Put(mc[g], u, Put(mc[g][u], c, 1)))

IncrementForgetting(mc, g, u, c) ==
    Put(mc, g, Put(mc[g], u,
        Put(EmptyMap, c, (IF c \in DOMAIN mc[g][u] THEN mc[g][u][c] ELSE 0) + 1)))

\* message_counters[g][u][c] += 1   (only reached when u in message_counters[g])
Increment(mc, g, u, c) ==
    LET cs == mc[g][u]
        n  == IF c \in DOMAIN cs THEN cs[c] ELSE 0
    IN  Put(mc, g, Put(mc[g], u, Put(cs, c, n + 1)))

\* counts = message_counters[g].pop(u, {})
PoppedCounts(mc, g, u) == IF HasCounter(mc, g, u) THEN mc[g][u] ELSE EmptyMap

PopCounter(mc, g, u) == Put(mc, g, Drop(GuildCounters(mc, g), u))

\* { str(cid): cnt for cid, cnt in counts.items() }
StrKeys(counts) ==
    [k \in {Str(c) : c \in DOMAIN counts} |->
        counts[CHOOSE c \in DOMAIN counts : Str(c) = k]]

(***************************************************************************)
(* The table `sessions` and the queries the handlers send to it.           *)
(***************************************************************************)
Ids == 1..Len(sessions)

NewRow(g, u, t) ==
    [id |-> Len(sessions) + 1, guild_id |-> g, user_id |-> u, join_time |-> t,
     leave_time |-> Null, channel_counts |-> NoCounts]

OpenIdsUnfiltered(g, u) ==
    {k \in Ids : sessions[k].guild_id = g /\ sessions[k].user_id = u}

\* .eq("guild_id", g).eq("user_id", u).is_("leave_time", None)
OpenIds(g, u) ==
    {k \in Ids : /\ sessions[k].guild_id = g
                 /\ sessions[k].user_id = u
                 /\ sessions[k].leave_time = Null}

MemberIdsOfGuild(g, u) == {k \in Ids : sessions[k].guild_id = g}

\* .eq("guild_id", g).eq("user_id", u)
MemberIds(g, u) ==
    {k \in Ids : sessions[k].guild_id = g /\ sessions[k].user_id = u}

Earliest(S) ==
    {k \in S : \A j \in S : sessions[k].join_time <= sessions[j].join_time}

\* .order("join_time", desc=True).limit(1): the rows that may come first
Latest(S) ==
    {k \in S : \A j \in S : sessions[j].join_time <= sessions[k].join_time}

EverActiveUsers(g) ==
    {sessions[k].user_id : k \in {j \in Ids : sessions[j].guild_id = g}}

\* .eq("guild_id", g).is_("leave_time", None), then the set of user_id
ActiveUsers(g) ==
    {sessions[k].user_id :
        k \in {j \in Ids : sessions[j].guild_id = g /\ sessions[j].leave_time = Null}}

Insert(g, u, t) == Append(sessions, NewRow(g, u, t))

\* .update({"leave_time": t, "channel_counts": cc}) of row k
Update(k, t, cc) ==
    [sessions EXCEPT ![k].leave_time = t, ![k].channel_counts = Some(cc)]

(***************************************************************************)
(* The handlers suspended at an await.                                     *)
(***************************************************************************)
Remove(s, i) == [j \in 1..(Len(s) - 1) |-> IF j < i THEN s[j] ELSE s[j + 1]]

Replace(s, i, t) == [s EXCEPT ![i] = t]

CanDispatch == Len(tasks) < MaxTasks

\* Whether user u is a member of guild g now.
IsMember(g, u) == u \in Bots \/ <<g, u>> \in present

ZeroSent(g) == [c \in ChannelsOf(g) |-> 0]

\* sent[<<g, u>>] when the process has not reset the member's counter since
\* it started.
NoWindow == EmptyMap

\* Whether a message of <<g, u>> falls between a reset of the member's
\* counter by this process and the member's leave.
Observed(g, u) == <<g, u>> \in present /\ sent[<<g, u>>] # NoWindow

(***************************************************************************)
(* on_member_join (lines 77-89).                                           *)
(***************************************************************************)
\* The member joins; the handler runs to its await of the insert.
on_member_join(g, u) ==
    /\ <<g, u>> \in Population \ present
    /\ CanDispatch
    /\ present' = present \cup {<<g, u>>}
    /\ message_counters' = ClearCounter(message_counters, g, u)
    /\ tasks' = Append(tasks, [h |-> "on_member_join", pc |-> "insert",
                               g |-> g, u |-> u, join_time |-> utcnow])
    /\ sent' = [sent EXCEPT ![<<g, u>>] = ZeroSent(g)]
    /\ Elapse
    /\ booted' = booted \ {<<g, u>>}
    /\ last' = [op |-> "on_member_join", g |-> g, u |-> u]
    /\ UNCHANGED <<sessions, handled>>

\* The store answers the insert; the handler ends.
on_member_join_insert(i) ==
    /\ i \in 1..Len(tasks)
    /\ tasks[i].h = "on_member_join"
    /\ Len(sessions) < MaxRows
    /\ sessions' = Insert(tasks[i].g, tasks[i].u, tasks[i].join_time)
    /\ tasks' = Remove(tasks, i)
    /\ last' = [op |-> "join_insert", g |-> tasks[i].g, u |-> tasks[i].u]
    /\ UNCHANGED <<message_counters, present, clock, sent, handled, booted>>

(***************************************************************************)
(* on_member_remove (lines 104-124).                                       *)
(***************************************************************************)
on_member_remove_peeking(g, u) ==
    /\ <<g, u>> \in present
    /\ CanDispatch
    /\ present' = present \ {<<g, u>>}
    /\ tasks' = Append(tasks,
          [h |-> "on_member_remove", pc |-> "update", g |-> g, u |-> u,
           leave_time |-> utcnow,
           channel_counts |-> StrKeys(PoppedCounts(message_counters, g, u))])
    /\ Elapse
    /\ booted' = booted \ {<<g, u>>}
    /\ last' = [op |-> "on_member_remove", g |-> g, u |-> u]
    /\ UNCHANGED <<sessions, message_counters, sent, handled>>

\* The member leaves; the handler runs to its await of the update.
on_member_remove(g, u) ==
    /\ <<g, u>> \in present
    /\ CanDispatch
    /\ present' = present \ {<<g, u>>}
    /\ message_counters' = PopCounter(message_counters, g, u)
    /\ tasks' = Append(tasks,
          [h |-> "on_member_remove", pc |-> "update", g |-> g, u |-> u,
           leave_time |-> utcnow,
           channel_counts |-> StrKeys(PoppedCounts(message_counters, g, u))])
    /\ Elapse
    /\ booted' = booted \ {<<g, u>>}
    /\ last' = [op |-> "on_member_remove", g |-> g, u |-> u]
    /\ UNCHANGED <<sessions, sent, handled>>

\* The store applies the update to the first open row of the member, most
\* recent join_time first, or to no row; the handler ends.
on_member_remove_update(i) ==
    /\ i \in 1..Len(tasks)
    /\ tasks[i].h = "on_member_remove"
    /\ LET t == tasks[i]
           first == Latest(OpenIds(t.g, t.u))
       IN  IF first = {}
           THEN /\ sessions' = sessions
                /\ last' = [op |-> "leave_update", g |-> t.g, u |-> t.u, row |-> 0]
           ELSE \E k \in first :
                   /\ sessions' = Update(k, t.leave_time, t.channel_counts)
                   /\ last' = [op |-> "leave_update", g |-> t.g, u |-> t.u, row |-> k]
    /\ tasks' = Remove(tasks, i)
    /\ UNCHANGED <<message_counters, present, clock, sent, handled, booted>>

(***************************************************************************)
(* The moderator commands (lines 129-188), started by process_commands.    *)
(***************************************************************************)
Commands == {"none", "stats", "active"}

\* for cid, cnt in counts.items(): "#name" of the channel, or the raw key
Display(g, k) ==
    IF ParseInt(k) \in ChannelsOf(g) THEN "#" \o ChannelName(ParseInt(k)) ELSE k

CountLines(g, counts) ==
    [n \in {Display(g, k) : k \in DOMAIN counts} |->
        counts[CHOOSE k \in DOMAIN counts : Display(g, k) = n]]

\* What stats sends for the row ses (lines 146-166).
StatsReply(g, u, ses) ==
    [kind   |-> "session",
     member |-> u,
     joined |-> Str(ses.join_time),
     left   |-> IF ses.leave_time = Null THEN "still here" ELSE Str(ses.leave_time),
     counts |-> IF ses.channel_counts = NoCounts \/ ses.channel_counts = Some(EmptyMap)
                THEN [none |-> 0]
                ELSE CountLines(g, ses.channel_counts[1])]

\* What active sends for the set users (lines 179-188).
ActiveReply(g, users) ==
    IF users = {}
    THEN [kind |-> "no_active"]
    ELSE [kind |-> "active",
          mentions |-> {IF IsMember(g, v)
                        THEN "<@" \o Str(v) \o ">"
                        ELSE "'" \o Str(v) \o "'" : v \in users}]

\* A stats that clears the counter of the member it reports on.
stats_counting(i) ==
    /\ i \in 1..Len(tasks)
    /\ tasks[i].h = "stats"
    /\ tasks[i].pc = "select"
    /\ message_counters' = ClearCounter(message_counters, tasks[i].g, tasks[i].u)
    /\ LET reply == [kind |-> "no_sessions", member |-> tasks[i].u]
       IN  /\ last' = [op |-> "stats", g |-> tasks[i].g, u |-> tasks[i].u, row |-> 0,
                       reply |-> reply]
           /\ tasks' = Replace(tasks, i, [h |-> "stats", pc |-> "send", g |-> tasks[i].g,
                                          u |-> tasks[i].u, text |-> reply])
    /\ UNCHANGED <<sessions, present, clock, sent, handled, booted>>

\* The store answers the select of stats: the handler builds its reply from
\* the row read and is suspended again, awaiting ctx.send.
stats(i) ==
    /\ i \in 1..Len(tasks)
    /\ tasks[i].h = "stats"
    /\ tasks[i].pc = "select"
    /\ LET t == tasks[i]
           data == Latest(MemberIds(t.g, t.u))
       IN  IF data = {}
           THEN LET reply == [kind |-> "no_sessions", member |-> t.u]
                IN  /\ last' = [op |-> "stats", g |-> t.g, u |-> t.u, row |-> 0,
                                reply |-> reply]
                    /\ tasks' = Replace(tasks, i, [h |-> "stats", pc |-> "send", g |-> t.g,
                                                   u |-> t.u, text |-> reply])
           ELSE \E k \in data :
                   LET reply == StatsReply(t.g, t.u, sessions[k])
                   IN  /\ last' = [op |-> "stats", g |-> t.g, u |-> t.u, row |-> k,
                                   reply |-> reply]
                       /\ tasks' = Replace(tasks, i, [h |-> "stats", pc |-> "send", g |-> t.g,
                                                      u |-> t.u, text |-> reply])
    /\ UNCHANGED <<sessions, message_counters, present, clock, sent, handled, booted>>

\* ctx.send of stats returns: the handler ends.
stats_send(i) ==
    /\ i \in 1..Len(tasks)
    /\ tasks[i].h = "stats"
    /\ tasks[i].pc = "send"
    /\ last' = [op |-> "stats_send", g |-> tasks[i].g, u |-> tasks[i].u,
                reply |-> tasks[i].text]
    /\ tasks' = Remove(tasks, i)
    /\ UNCHANGED <<sessions, message_counters, present, clock, sent, handled, booted>>

\* The store answers the select of active: the handler builds its reply from
\* the rows read and is suspended again, awaiting ctx.send.
active(i) ==
    /\ i \in 1..Len(tasks)
    /\ tasks[i].h = "active"
    /\ tasks[i].pc = "select"
    /\ LET reply == ActiveReply(tasks[i].g, ActiveUsers(tasks[i].g))
       IN  /\ last' = [op |-> "active", g |-> tasks[i].g, reply |-> reply]
           /\ tasks' = Replace(tasks, i, [h |-> "active", pc |-> "send", g |-> tasks[i].g,
                                          text |-> reply])
    /\ UNCHANGED <<sessions, message_counters, present, clock, sent, handled, booted>>

\* ctx.send of active returns: the handler ends.
active_send(i) ==
    /\ i \in 1..Len(tasks)
    /\ tasks[i].h = "active"
    /\ tasks[i].pc = "send"
    /\ last' = [op |-> "active_send", g |-> tasks[i].g, reply |-> tasks[i].text]
    /\ tasks' = Remove(tasks, i)
    /\ UNCHANGED <<sessions, message_counters, present, clock, sent, handled, booted>>

(***************************************************************************)
(* on_message (lines 92-101).  cmd is the command the message invokes,     *)
(* target the member stats is asked about, perm whether the author passes  *)
(* has_permissions(manage_guild=True).                                     *)
(***************************************************************************)
CountedUnguarded(mc, g, u, c) ==
    Increment(IF HasCounter(mc, g, u) THEN mc ELSE ClearCounter(mc, g, u), g, u, c)

\* message_counters after lines 97-99
Counted(mc, g, u, c) ==
    IF HasCounter(mc, g, u)
    THEN Increment(mc, g, u, c)
    ELSE Put(mc, g, GuildCounters(mc, g))

\* bot.process_commands(message): the command runs to its await of the select
process_commands(g, cmd, target, perm) ==
    IF cmd = "none" \/ ~perm
    THEN tasks' = tasks
    ELSE /\ CanDispatch
         /\ tasks' = Append(tasks,
               IF cmd = "stats"
               THEN [h |-> "stats", pc |-> "select", g |-> g, u |-> target]
               ELSE [h |-> "active", pc |-> "select", g |-> g])

on_message(g, u, c, cmd, target, perm) ==
    /\ c \in ChannelsOf(g)
    /\ cmd \in Commands
    /\ cmd = "stats" => IsMember(g, target)
    /\ IF u \in Bots
       THEN /\ cmd = "none" /\ target = u /\ perm
            /\ UNCHANGED <<message_counters, tasks, sent, handled>>
       ELSE /\ <<g, u>> \in Population
            /\ handled < MaxMessages
            /\ handled' = handled + 1
            /\ cmd # "stats" => target = u
            /\ cmd = "none" => perm
            /\ message_counters' = Counted(message_counters, g, u, c)
            /\ sent' = IF Observed(g, u)
                       THEN [sent EXCEPT ![<<g, u>>][c] = @ + 1]
                       ELSE sent
            /\ process_commands(g, cmd, target, perm)
    /\ last' = [op |-> "on_message", g |-> g, u |-> u]
    /\ UNCHANGED <<sessions, present, clock, booted>>

\* The platform delivers the message of a member of the guild.
message(g, u, c, cmd, target, perm) ==
    IsMember(g, u) /\ on_message(g, u, c, cmd, target, perm)

\* A message of a user who has left is still delivered.
late_message(g, u, c) ==
    <<g, u>> \in Population \ present /\ on_message(g, u, c, "none", u, TRUE)

(***************************************************************************)
(* on_ready (lines 39-74): the bootstrap of the members present.           *)
(***************************************************************************)
RECURSIVE Ascending(_)
Ascending(S) ==
    IF S = {} THEN <<>>
    ELSE LET m == CHOOSE x \in S : \A y \in S : x <= y
         IN  <<m>> \o Ascending(S \ {m})

\* guild.fetch_members(limit=None), less the members line 49 skips
FetchMembers(g) == Ascending({u \in Users : IsMember(g, u) /\ u \notin Bots})

\* The event is dispatched; the handler awaits change_presence.
on_ready ==
    /\ CanDispatch
    /\ tasks' = Append(tasks, [h |-> "on_ready", pc |-> "presence",
                               now |-> 0, gi |-> 0, todo |-> <<>>])
    /\ last' = [op |-> "on_ready", step |-> "dispatch", done |-> FALSE]
    /\ UNCHANGED <<sessions, message_counters, present, clock, sent, handled, booted>>

\* Line 46, then the first guild's members are asked for.
on_ready_begin(i) ==
    /\ i \in 1..Len(tasks)
    /\ tasks[i].h = "on_ready" /\ tasks[i].pc = "presence"
    /\ tasks' = Replace(tasks, i,
          [tasks[i] EXCEPT !.pc = "fetch", !.now = utcnow, !.gi = 1])
    /\ Elapse
    /\ last' = [op |-> "on_ready", step |-> "begin", done |-> FALSE]
    /\ UNCHANGED <<sessions, message_counters, present, sent, handled, booted>>

\* The loops of lines 47-48 go on with the members `rest` of the guild: the
\* next member's counter is cleared and its select awaited (lines 53-61), or
\* the next guild's members are asked for, or the handler ends (line 74).
ReadyDone(t, rest) == rest = <<>> /\ t.gi = Len(GuildList)

ReadyContinue(i, rest) ==
    LET t == tasks[i]
    IN  IF rest # <<>>
        THEN /\ message_counters' =
                    ClearCounter(message_counters, GuildList[t.gi], Head(rest))
             /\ sent' = [sent EXCEPT ![<<GuildList[t.gi], Head(rest)>>] =
                                        ZeroSent(GuildList[t.gi])]
             /\ tasks' = Replace(tasks, i, [t EXCEPT !.pc = "select", !.todo = rest])
        ELSE /\ message_counters' = message_counters
             /\ sent' = sent
             /\ tasks' = IF t.gi < Len(GuildList)
                         THEN Replace(tasks, i,
                                [t EXCEPT !.pc = "fetch", !.gi = @ + 1, !.todo = <<>>])
                         ELSE Remove(tasks, i)

\* The members of the guild arrive.
on_ready_fetch(i) ==
    /\ i \in 1..Len(tasks)
    /\ tasks[i].h = "on_ready" /\ tasks[i].pc = "fetch"
    /\ LET rest == FetchMembers(GuildList[tasks[i].gi])
       IN  /\ ReadyContinue(i, rest)
           /\ last' = [op |-> "on_ready", step |-> "fetch",
                       done |-> ReadyDone(tasks[i], rest)]
    /\ UNCHANGED <<sessions, present, clock, handled, booted>>

on_ready_select_unread(i) ==
    /\ i \in 1..Len(tasks)
    /\ tasks[i].h = "on_ready" /\ tasks[i].pc = "select"
    /\ tasks' = Replace(tasks, i, [tasks[i] EXCEPT !.pc = "insert"])
    /\ last' = [op |-> "on_ready", step |-> "select",
                g |-> GuildList[tasks[i].gi], u |-> Head(tasks[i].todo),
                found |-> FALSE,
                again |-> <<GuildList[tasks[i].gi], Head(tasks[i].todo)>> \in booted,
                done |-> FALSE]
    /\ UNCHANGED <<sessions, message_counters, present, clock, sent, handled, booted>>

\* The store answers the select of lines 56-61.
on_ready_select(i) ==
    /\ i \in 1..Len(tasks)
    /\ tasks[i].h = "on_ready" /\ tasks[i].pc = "select"
    /\ LET t == tasks[i]
           g == GuildList[t.gi]
           m == Head(t.todo)
       IN  IF OpenIds(g, m) = {}
           THEN /\ tasks' = Replace(tasks, i, [t EXCEPT !.pc = "insert"])
                /\ UNCHANGED <<message_counters, sent, booted>>
                /\ last' = [op |-> "on_ready", step |-> "select", g |-> g, u |-> m,
                            found |-> FALSE, again |-> <<g, m>> \in booted,
                            done |-> FALSE]
           ELSE /\ ReadyContinue(i, Tail(t.todo))
                /\ booted' = booted \cup {<<g, m>>}
                /\ last' = [op |-> "on_ready", step |-> "select", g |-> g, u |-> m,
                            found |-> TRUE, again |-> <<g, m>> \in booted,
                            done |-> ReadyDone(t, Tail(t.todo))]
    /\ UNCHANGED <<sessions, present, clock, handled>>

\* The store answers the insert of lines 65-69.
on_ready_insert(i) ==
    /\ i \in 1..Len(tasks)
    /\ tasks[i].h = "on_ready" /\ tasks[i].pc = "insert"
    /\ Len(sessions) < MaxRows
    /\ LET t == tasks[i]
           g == GuildList[t.gi]
           m == Head(t.todo)
       IN  /\ sessions' = Insert(g, m, t.now)
           /\ ReadyContinue(i, Tail(t.todo))
           /\ booted' = booted \cup {<<g, m>>}
           /\ last' = [op |-> "on_ready", step |-> "insert", g |-> g, u |-> m,
                       again |-> <<g, m>> \in booted,
                       done |-> ReadyDone(t, Tail(t.todo))]
    /\ UNCHANGED <<present, clock, handled>>

(***************************************************************************)
(* The environment: a store call that fails, and a restart of the process. *)
(***************************************************************************)
store_error_retried(i) ==
    /\ i \in 1..Len(tasks)
    /\ tasks[i].pc \in {"select", "insert", "update"}
    /\ last # [op |-> "store_error", h |-> tasks[i].h]
    /\ last' = [op |-> "store_error", h |-> tasks[i].h]
    /\ UNCHANGED <<sessions, message_counters, tasks, present, clock, sent, handled,
                   booted>>

\* The awaited store call raises; nothing catches it and the handler ends.
store_error(i) ==
    /\ i \in 1..Len(tasks)
    /\ tasks[i].pc \in {"select", "insert", "update"}
    /\ tasks' = Remove(tasks, i)
    /\ last' = [op |-> "store_error", h |-> tasks[i].h]
    /\ UNCHANGED <<sessions, message_counters, present, clock, sent, handled, booted>>

restart_warm(P) ==
    /\ tasks' = <<>>
    /\ present' = P
    /\ sent' = [p \in Population |-> NoWindow]
    /\ booted' = {p \in booted : (p \in present) = (p \in P)}
    /\ last' = [op |-> "restart"]
    /\ UNCHANGED <<sessions, message_counters, clock, handled>>

\* The process stops and starts again (lines 33-34 run anew); P are the
\* members when it is up again.
restart(P) ==
    /\ tasks' = <<>>
    /\ message_counters' = EmptyMap
    /\ present' = P
    /\ sent' = [p \in Population |-> NoWindow]
    /\ booted' = {p \in booted : (p \in present) = (p \in P)}
    /\ last' = [op |-> "restart"]
    /\ UNCHANGED <<sessions, clock, handled>>

Init ==
    /\ sessions = <<>>
    /\ message_counters = EmptyMap
    /\ tasks = <<>>
    /\ present = {}
    /\ clock = 1
    /\ sent = [p \in Population |-> ZeroSent(p[1])]
    /\ handled = 0
    /\ booted = {}
    /\ last = [op |-> "start"]

TaskIds == 1..MaxTasks

\* The handlers, every interleaving at the awaits, failing store calls and
\* restarts.
Next ==
    \/ \E p \in Population : on_member_join(p[1], p[2])
    \/ \E p \in Population : on_member_remove(p[1], p[2])
    \/ \E g \in Guilds, u \in Users, c \in Channels, perm \in BOOLEAN :
          \/ message(g, u, c, "none", u, perm)
          \/ message(g, u, c, "active", u, perm)
          \/ \E v \in Users : message(g, u, c, "stats", v, perm)
    \/ \E p \in Population, c \in Channels : late_message(p[1], p[2], c)
    \/ on_ready
    \/ \E i \in TaskIds : on_member_join_insert(i)
    \/ \E i \in TaskIds : on_member_remove_update(i)
    \/ \E i \in TaskIds : stats(i)
    \/ \E i \in TaskIds : stats_send(i)
    \/ \E i \in TaskIds : active(i)
    \/ \E i \in TaskIds : active_send(i)
    \/ \E i \in TaskIds : on_ready_begin(i)
    \/ \E i \in TaskIds : on_ready_fetch(i)
    \/ \E i \in TaskIds : on_ready_select(i)
    \/ \E i \in TaskIds : on_ready_insert(i)
    \/ \E i \in TaskIds : store_error(i)
    \/ \E P \in SUBSET Population : restart(P)

Spec == Init /\ [][Next]_vars

(***************************************************************************)
(* The platform's order of events per member: join, then messages, then    *)
(* leave, each handled before the member's next event is dispatched.  The  *)
(* handlers of different members interleave at their awaits.  No on_ready, *)
(* no restart, no failing store call, no command.                          *)
(***************************************************************************)
Idle(g, u) ==
    \A i \in 1..Len(tasks) :
        tasks[i].h \in {"on_member_join", "on_member_remove"} =>
            ~(tasks[i].g = g /\ tasks[i].u = u)

NextOrdered ==
    \/ \E p \in Population : Idle(p[1], p[2]) /\ on_member_join(p[1], p[2])
    \/ \E p \in Population : Idle(p[1], p[2]) /\ on_member_remove(p[1], p[2])
    \/ \E g \in Guilds, u \in Users, c \in Channels :
          Idle(g, u) /\ message(g, u, c, "none", u, TRUE)
    \/ \E i \in TaskIds : on_member_join_insert(i)
    \/ \E i \in TaskIds : on_member_remove_update(i)

SpecOrdered == Init /\ [][NextOrdered]_vars

(***************************************************************************)
(* on_ready beside the joins and leaves of SpecOrdered: each member's join *)
(* and leave are handled in order, and on_ready interleaves with them at   *)
(* the awaits.                                                             *)
(***************************************************************************)
NextBoot ==
    \/ \E p \in Population : Idle(p[1], p[2]) /\ on_member_join(p[1], p[2])
    \/ \E p \in Population : Idle(p[1], p[2]) /\ on_member_remove(p[1], p[2])
    \/ on_ready
    \/ \E i \in TaskIds : on_member_join_insert(i)
    \/ \E i \in TaskIds : on_member_remove_update(i)
    \/ \E i \in TaskIds : on_ready_begin(i)
    \/ \E i \in TaskIds : on_ready_fetch(i)
    \/ \E i \in TaskIds : on_ready_select(i)
    \/ \E i \in TaskIds : on_ready_insert(i)

SpecBoot == Init /\ [][NextBoot]_vars

(***************************************************************************)
(* One handler at a time: an event is dispatched when no handler is        *)
(* suspended.  The process restarts; while it is down members may join,    *)
(* and no member with an open session leaves.                              *)
(***************************************************************************)
Quiet == tasks = <<>>

NoMissedLeave(P) == \A p \in Population : OpenIds(p[1], p[2]) # {} => p \in P

NextIdem ==
    \/ \E p \in Population : Quiet /\ on_member_join(p[1], p[2])
    \/ \E p \in Population : Quiet /\ on_member_remove(p[1], p[2])
    \/ Quiet /\ on_ready
    \/ \E i \in TaskIds : on_member_join_insert(i)
    \/ \E i \in TaskIds : on_member_remove_update(i)
    \/ \E i \in TaskIds : on_ready_begin(i)
    \/ \E i \in TaskIds : on_ready_fetch(i)
    \/ \E i \in TaskIds : on_ready_select(i)
    \/ \E i \in TaskIds : on_ready_insert(i)
    \/ \E P \in SUBSET Population : Quiet /\ NoMissedLeave(P) /\ restart(P)

SpecIdem == Init /\ [][NextIdem]_vars

(***************************************************************************)
(* One handler at a time: joins, leaves, messages of members and of the    *)
(* bot, and restarts with the membership as it was.                        *)
(***************************************************************************)
NextDrop ==
    \/ \E p \in Population : Quiet /\ on_member_join(p[1], p[2])
    \/ \E p \in Population : Quiet /\ on_member_remove(p[1], p[2])
    \/ \E g \in Guilds, u \in Users, c \in Channels :
          Quiet /\ message(g, u, c, "none", u, TRUE)
    \/ \E i \in TaskIds : on_member_join_insert(i)
    \/ \E i \in TaskIds : on_member_remove_update(i)
    \/ Quiet /\ restart(present)

SpecDrop == Init /\ [][NextDrop]_vars

(***************************************************************************)
(* Joins, leaves and messages, every interleaving at the awaits.           *)
(***************************************************************************)
NextLeave ==
    \/ \E p \in Population : on_member_join(p[1], p[2])
    \/ \E p \in Population : on_member_remove(p[1], p[2])
    \/ \E g \in Guilds, u \in Users, c \in Channels :
          message(g, u, c, "none", u, TRUE)
    \/ \E i \in TaskIds : on_member_join_insert(i)
    \/ \E i \in TaskIds : on_member_remove_update(i)

SpecLeave == Init /\ [][NextLeave]_vars

(***************************************************************************)
(* Joins, leaves and the messages that invoke the commands, every          *)
(* interleaving at the awaits.                                             *)
(***************************************************************************)
NextQuery ==
    \/ \E p \in Population : on_member_join(p[1], p[2])
    \/ \E p \in Population : on_member_remove(p[1], p[2])
    \/ \E p \in Population, c \in {11, 21}, v \in Users, perm \in BOOLEAN :
          message(p[1], p[2], c, "stats", v, perm)
    \/ \E p \in Population, c \in {11, 21}, perm \in BOOLEAN :
          message(p[1], p[2], c, "active", p[2], perm)
    \/ \E i \in TaskIds : on_member_join_insert(i)
    \/ \E i \in TaskIds : on_member_remove_update(i)
    \/ \E i \in TaskIds : stats(i)
    \/ \E i \in TaskIds : stats_send(i)
    \/ \E i \in TaskIds : active(i)
    \/ \E i \in TaskIds : active_send(i)

SpecQuery == Init /\ [][NextQuery]_vars

(***************************************************************************)
(* Every handler, for the two members of guild 1, every interleaving at    *)
(* the awaits.                                                             *)
(***************************************************************************)
NextGuild ==
    \/ \E u \in {1, 2} : on_member_join(1, u)
    \/ \E u \in {1, 2} : on_member_remove(1, u)
    \/ \E u \in Users : message(1, u, 11, "none", u, TRUE)
    \/ \E u \in {1, 2}, v \in Users : message(1, u, 11, "stats", v, TRUE)
    \/ \E u \in {1, 2} : message(1, u, 11, "active", u, TRUE)
    \/ on_ready
    \/ \E i \in TaskIds : on_member_join_insert(i)
    \/ \E i \in TaskIds : on_member_remove_update(i)
    \/ \E i \in TaskIds : stats(i)
    \/ \E i \in TaskIds : stats_send(i)
    \/ \E i \in TaskIds : active(i)
    \/ \E i \in TaskIds : active_send(i)
    \/ \E i \in TaskIds : on_ready_begin(i)
    \/ \E i \in TaskIds : on_ready_fetch(i)
    \/ \E i \in TaskIds : on_ready_select(i)
    \/ \E i \in TaskIds : on_ready_insert(i)

SpecGuild == Init /\ [][NextGuild]_vars

(***************************************************************************)
(* Joins, leaves and messages, every interleaving at the awaits, and       *)
(* messages of users who have left.                                        *)
(***************************************************************************)
NextRace ==
    \/ \E p \in Population : on_member_join(p[1], p[2])
    \/ \E p \in Population : on_member_remove(p[1], p[2])
    \/ \E g \in Guilds, u \in Users, c \in Channels :
          message(g, u, c, "none", u, TRUE)
    \/ \E p \in Population, c \in Channels : late_message(p[1], p[2], c)
    \/ \E i \in TaskIds : on_member_join_insert(i)
    \/ \E i \in TaskIds : on_member_remove_update(i)

SpecRace == Init /\ [][NextRace]_vars

(***************************************************************************)
(* The same with on_ready, for the two members of guild 1 and one channel: *)
(* every interleaving of on_ready, joins, leaves and messages at the       *)
(* awaits, and messages of users who have left.                            *)
(***************************************************************************)
NextRaceReady ==
    \/ \E u \in {1, 2} : on_member_join(1, u)
    \/ \E u \in {1, 2} : on_member_remove(1, u)
    \/ \E u \in Users : message(1, u, 11, "none", u, TRUE)
    \/ \E u \in {1, 2} : late_message(1, u, 11)
    \/ on_ready
    \/ \E i \in TaskIds : on_member_join_insert(i)
    \/ \E i \in TaskIds : on_member_remove_update(i)
    \/ \E i \in TaskIds : on_ready_begin(i)
    \/ \E i \in TaskIds : on_ready_fetch(i)
    \/ \E i \in TaskIds : on_ready_select(i)
    \/ \E i \in TaskIds : on_ready_insert(i)

SpecRaceReady == Init /\ [][NextRaceReady]_vars

(***************************************************************************)
(* One handler at a time, and store calls that fail.                       *)
(***************************************************************************)
NextFail ==
    \/ \E p \in Population : Quiet /\ on_member_join(p[1], p[2])
    \/ \E p \in Population : Quiet /\ on_member_remove(p[1], p[2])
    \/ \E g \in Guilds, u \in Users, c \in Channels :
          Quiet /\ message(g, u, c, "none", u, TRUE)
    \/ \E i \in TaskIds : on_member_join_insert(i)
    \/ \E i \in TaskIds : on_member_remove_update(i)
    \/ \E i \in TaskIds : store_error(i)

SpecFail == Init /\ [][NextFail]_vars

(***************************************************************************)
(* Joins and leaves one at a time, messages at any time in one channel of  *)
(* each guild, restarts during which no member leaves and at most one      *)
(* joins, and on_ready as the first event after a start.                   *)
(***************************************************************************)
Started == last.op \in {"start", "restart"}

NextRestart ==
    \/ \E p \in Population : Quiet /\ on_member_join(p[1], p[2])
    \/ \E p \in Population : Quiet /\ on_member_remove(p[1], p[2])
    \/ \E g \in Guilds, u \in Users, c \in {11, 21} :
          message(g, u, c, "none", u, TRUE)
    \/ Started /\ on_ready
    \/ \E i \in TaskIds : on_member_join_insert(i)
    \/ \E i \in TaskIds : on_member_remove_update(i)
    \/ \E i \in TaskIds : on_ready_begin(i)
    \/ \E i \in TaskIds : on_ready_fetch(i)
    \/ \E i \in TaskIds : on_ready_select(i)
    \/ \E i \in TaskIds : on_ready_insert(i)
    \/ \E p \in Population : Quiet /\ restart(present \cup {p})

SpecRestart == Init /\ [][NextRestart]_vars

(***************************************************************************)
(* The claims.                                                             *)
(***************************************************************************)
Closed(k) == sessions[k].leave_time # Null

\* The rows of a member, and those of them with no leave_time.
RowsOf(g, u) ==
    {k \in 1..Len(sessions) : sessions[k].guild_id = g /\ sessions[k].user_id = u}

OpenRowsOf(g, u) == {k \in RowsOf(g, u) : sessions[k].leave_time = Null}

\* The messages of member <<g, u>> since its counter was last reset, as a
\* dict with the channels as strings and no channel without a message.
SentCounts(g, u) ==
    LET used == {c \in DOMAIN sent[<<g, u>>] : sent[<<g, u>>][c] > 0}
    IN  [k \in {Str(c) : c \in used} |-> sent[<<g, u>>][CHOOSE c \in used : Str(c) = k]]

\* C1: when every member's events are dispatched in the platform's order
\* (join, messages, leave, repeated) and the process does not restart, no
\* <<guild, user>> has two open rows.
C1_AtMostOneOpen ==
    \A g \in Guilds, u \in Users : Cardinality(OpenRowsOf(g, u)) <= 1

\* C2: the update of on_member_remove closes the row the member's last join
\* inserted, with channel_counts the messages handled since that join, per
\* channel, under the channel's string; with no message, the empty dict.
C2_LeaveRecordsCounts ==
    last.op = "leave_update" =>
        /\ last.row \in RowsOf(last.g, last.u)
        /\ \A j \in RowsOf(last.g, last.u) : j <= last.row
        /\ Closed(last.row)
        /\ sessions[last.row].channel_counts = Some(SentCounts(last.g, last.u))

\* A session closed with two messages in channel 11 and one in channel 12.
C2_Witness ==
    /\ last.op = "leave_update"
    /\ last.row \in Ids
    /\ sessions[last.row].channel_counts = Some([k \in {"11", "12"} |-> IF k = "11" THEN 2 ELSE 1])

\* C3: when on_ready has gone through every guild and no handler is
\* suspended, every member present has exactly one open row, joins
\* dispatched while on_ready awaits the store included.
C3_BootstrapExactlyOneOpen ==
    (last.op = "on_ready" /\ last.done /\ tasks = <<>>) =>
        \A p \in present : Cardinality(OpenRowsOf(p[1], p[2])) = 1

\* C4: on_ready for a member it has handled before, with no join or leave of
\* the member since, finds the member's one open row and leaves the table as
\* it is; and whenever its select finds an open row, it inserts nothing and
\* no row changes.
C4_BootstrapIdempotent ==
    [][(last'.op = "on_ready" /\ last'.step \in {"select", "insert"}) =>
          /\ OpenRowsOf(last'.g, last'.u) # {} =>
                /\ sessions' = sessions
                /\ \A i \in 1..Len(tasks') :
                      ~(tasks'[i].h = "on_ready" /\ tasks'[i].pc = "insert")
          /\ last'.again =>
                /\ Cardinality(OpenRowsOf(last'.g, last'.u)) = 1
                /\ sessions' = sessions]_vars

\* The second on_ready finds the open row of a member it handled before.
C4_Witness ==
    /\ last.op = "on_ready" /\ last.step = "select"
    /\ last.found /\ last.again
    /\ Cardinality(OpenRowsOf(last.g, last.u)) = 1

\* The entries of the counter: <<guild, user, counts>>.
Entries(mc) == UNION {{<<g, u, mc[g][u]>> : u \in DOMAIN mc[g]} : g \in DOMAIN mc}

HasEntry(mc, g, u) == \E e \in Entries(mc) : e[1] = g /\ e[2] = u

\* C5: a message of a bot, or of an author with no entry in the counter for
\* the guild, changes no row and no entry of the counter, and starts and
\* ends no other handler.
C5_DroppedMessage ==
    [][(/\ last'.op = "on_message"
        /\ last'.u \in Bots \/ ~HasEntry(message_counters, last'.g, last'.u)) =>
          /\ sessions' = sessions
          /\ Entries(message_counters') = Entries(message_counters)
          /\ tasks' = tasks]_vars

\* A member with an open row and no entry (the process restarted) sends a
\* message while another member has counts.
C5_Witness ==
    /\ last.op = "on_message"
    /\ last.u \notin Bots
    /\ ~HasEntry(message_counters, last.g, last.u)
    /\ OpenRowsOf(last.g, last.u) # {}
    /\ \E e \in Entries(message_counters) : e[3] # EmptyMap

\* C6: no step deletes a row, and a step changes a row only if the row is
\* open and the step is the update of on_member_remove, which sets its
\* leave_time and its channel_counts and nothing else; so a closed row never
\* changes again.
C6_RowsClosedOnce ==
    [][/\ Len(sessions') >= Len(sessions)
       /\ \A k \in 1..Len(sessions) :
             \/ sessions'[k] = sessions[k]
             \/ /\ sessions[k].leave_time = Null
                /\ last'.op = "leave_update"
                /\ sessions'[k].leave_time # Null
                /\ sessions'[k].channel_counts # NoCounts
                /\ sessions'[k] =
                      [sessions[k] EXCEPT !.leave_time = sessions'[k].leave_time,
                                          !.channel_counts = sessions'[k].channel_counts]]_vars

\* Two on_member_remove of one member were suspended at their update; one
\* has closed a row and the other is still to come.
C6_Witness ==
    /\ last.op = "leave_update"
    /\ last.row # 0
    /\ Closed(last.row)
    /\ \E i \in 1..Len(tasks) :
          /\ tasks[i].h = "on_member_remove"
          /\ tasks[i].g = last.g /\ tasks[i].u = last.u

\* C7: the handlers of stats and active change no row and no entry of the
\* counter; the step that starts them changes no row and no entry of another
\* author; and the same command answered twice in a row gets the same reply.
C7_QueriesReadOnly ==
    [][/\ last'.op \in {"stats", "stats_send", "active", "active_send"} =>
             /\ sessions' = sessions
             /\ message_counters' = message_counters
       /\ (/\ Len(tasks') = Len(tasks) + 1
           /\ tasks'[Len(tasks')].h \in {"stats", "active"}) =>
             /\ sessions' = sessions
             /\ \A e \in Entries(message_counters) :
                   e \in Entries(message_counters') \/ (e[1] = last'.g /\ e[2] = last'.u)
       /\ (last.op = "stats" /\ last'.op = "stats" /\ last'.g = last.g /\ last'.u = last.u) =>
             last'.reply = last.reply
       /\ (last.op = "active" /\ last'.op = "active" /\ last'.g = last.g) =>
             last'.reply = last.reply]_vars

\* stats has answered for a member with a row and awaits its send, counts
\* are in the counter, and the same command is waiting for the answer of its
\* select.
C7_Witness ==
    /\ last.op = "stats"
    /\ last.row # 0
    /\ \E e \in Entries(message_counters) : e[3] # EmptyMap
    /\ \E i \in 1..Len(tasks) :
          /\ tasks[i].h = "stats" /\ tasks[i].pc = "send"
          /\ tasks[i].g = last.g /\ tasks[i].u = last.u
          /\ tasks[i].text = last.reply
    /\ \E i \in 1..Len(tasks) :
          /\ tasks[i].h = "stats" /\ tasks[i].pc = "select"
          /\ tasks[i].g = last.g /\ tasks[i].u = last.u

\* C8: stats answers "no sessions" exactly when the member has no row in
\* the guild; otherwise it reports the member's row with the greatest
\* join_time, and "still here" exactly when that row has no leave_time.
C8_StatsLatest ==
    last.op = "stats" =>
        LET own == RowsOf(last.g, last.u)
        IN  /\ last.reply.member = last.u
            /\ (last.reply.kind = "no_sessions") <=> (own = {})
            /\ own # {} =>
                  /\ last.row \in own
                  /\ \A j \in own : sessions[j].join_time <= sessions[last.row].join_time
                  /\ last.reply.kind = "session"
                  /\ last.reply.joined = Str(sessions[last.row].join_time)
                  /\ (last.reply.left = "still here") <=>
                        (sessions[last.row].leave_time = Null)
                  /\ sessions[last.row].leave_time # Null =>
                        last.reply.left = Str(sessions[last.row].leave_time)

\* stats reports the open row of a member who has an older, closed row,
\* while another member's row has a greater join_time.
C8_Witness ==
    /\ last.op = "stats"
    /\ last.row # 0
    /\ last.reply.left = "still here"
    /\ \E j \in RowsOf(last.g, last.u) : Closed(j)
    /\ \E j \in 1..Len(sessions) :
          /\ sessions[j].user_id # last.u
          /\ sessions[j].join_time > sessions[last.row].join_time

\* The users with an open row in guild g.
OpenUsers(g) == {u \in Users : OpenRowsOf(g, u) # {}}

Mention(g, v) ==
    IF v \in Bots \/ <<g, v>> \in present
    THEN "<@" \o Str(v) \o ">"
    ELSE "'" \o Str(v) \o "'"

\* C9: active answers with the empty-state message exactly when no user has
\* an open row in the guild; otherwise it lists each user with an open row
\* in the guild once, and nobody else.
C9_ActiveDistinctOpen ==
    last.op = "active" =>
        /\ (last.reply.kind = "no_active") <=> (OpenUsers(last.g) = {})
        /\ OpenUsers(last.g) # {} =>
              /\ last.reply.kind = "active"
              /\ last.reply.mentions = {Mention(last.g, v) : v \in OpenUsers(last.g)}
              /\ Cardinality(last.reply.mentions) = Cardinality(OpenUsers(last.g))

\* active lists once a user with two open rows.
C9_Witness ==
    /\ last.op = "active"
    /\ last.reply.kind = "active"
    /\ Cardinality(last.reply.mentions) = 1
    /\ \E u \in Users : Cardinality(OpenRowsOf(last.g, u)) = 2

\* C10: the update of on_member_remove changes no row when the member has no
\* open row; otherwise it changes one row only, the member's open row with
\* the greatest join_time, and no row is added or removed.
C10_LeaveUpdatesLatestOpen ==
    [][last'.op = "leave_update" =>
          LET open == OpenRowsOf(last'.g, last'.u)
          IN  IF open = {}
              THEN sessions' = sessions
              ELSE \E k \in open :
                      /\ \A j \in open : sessions[j].join_time <= sessions[k].join_time
                      /\ sessions'[k].leave_time # Null
                      /\ Len(sessions') = Len(sessions)
                      /\ \A j \in 1..Len(sessions) : j # k => sessions'[j] = sessions[j]]_vars

\* The update closed the newer of two open rows of the member; the older one
\* is still open, and another member has a row.
C10_Witness ==
    /\ last.op = "leave_update"
    /\ last.row # 0
    /\ \E j \in OpenRowsOf(last.g, last.u) :
          sessions[j].join_time < sessions[last.row].join_time
    /\ \E j \in 1..Len(sessions) : sessions[j].user_id # last.u

\* counts with one more message in channel c.
Bump(counts, c) ==
    [x \in DOMAIN counts \cup {c} |->
        IF x = c THEN (IF c \in DOMAIN counts THEN counts[c] ELSE 0) + 1
        ELSE counts[x]]

\* C11: a message of a user who is no bot and has an entry for the guild
\* adds one to the count of the message's channel in that entry; no other
\* count, no other entry and no row changes.
C11_MessageCountsOnce ==
    [][(/\ last'.op = "on_message"
        /\ last'.u \notin Bots
        /\ HasEntry(message_counters, last'.g, last'.u)) =>
          /\ sessions' = sessions
          /\ \E c \in ChannelsOf(last'.g) :
                /\ sent'[<<last'.g, last'.u>>][c] = sent[<<last'.g, last'.u>>][c] + 1
                /\ Entries(message_counters') =
                      {IF e[1] = last'.g /\ e[2] = last'.u
                       THEN <<e[1], e[2], Bump(e[3], c)>>
                       ELSE e : e \in Entries(message_counters)}]_vars

\* The author's entry holds two messages in one channel and one in another,
\* beside another user's entry and a row.
C11_Witness ==
    /\ last.op = "on_message"
    /\ sessions # <<>>
    /\ \E e \in Entries(message_counters) :
          /\ e[1] = last.g /\ e[2] = last.u
          /\ Cardinality(DOMAIN e[3]) = 2
          /\ \E c \in DOMAIN e[3] : e[3][c] = 2
    /\ \E e \in Entries(message_counters) : e[2] # last.u

\* The sequence s without its i-th element.
Without(s, i) == SubSeq(s, 1, i - 1) \o SubSeq(s, i + 1, Len(s))

\* on_member_remove has removed the member's entry when it awaits its
\* update, and the counts it carries are the messages handled since the
\* entry's last reset, per channel.
LeaveTakesCounts ==
    last'.op = "on_member_remove" =>
        /\ ~HasEntry(message_counters', last'.g, last'.u)
        /\ tasks' = Append(tasks, tasks'[Len(tasks')])
        /\ tasks'[Len(tasks')].h = "on_member_remove"
        /\ tasks'[Len(tasks')].g = last'.g /\ tasks'[Len(tasks')].u = last'.u
        /\ tasks'[Len(tasks')].channel_counts = SentCounts(last'.g, last'.u)

\* The update writes the counts its handler carries.
UpdateWritesCounts ==
    (last'.op = "leave_update" /\ last'.row # 0) =>
        \E i \in 1..Len(tasks) :
           /\ tasks' = Without(tasks, i)
           /\ tasks[i].h = "on_member_remove"
           /\ tasks[i].g = last'.g /\ tasks[i].u = last'.u
           /\ sessions'[last'.row].channel_counts = Some(tasks[i].channel_counts)

\* An on_member_remove of <<g, u>> is suspended at its update.
Leaving(g, u) ==
    \E i \in 1..Len(tasks) :
        tasks[i].h = "on_member_remove" /\ tasks[i].g = g /\ tasks[i].u = u

\* C12 as stated: in every interleaving, on_member_remove has removed the
\* member's entry when it awaits its update and carries the messages
\* handled since the entry's last reset; the update writes these counts;
\* and a message of the user handled while the update is suspended is
\* dropped: no entry, no suspended update and no row changes.
C12_LateMessageDropped ==
    [][/\ LeaveTakesCounts
       /\ UpdateWritesCounts
       /\ (/\ last'.op = "on_message"
           /\ last'.u \notin Bots
           /\ Leaving(last'.g, last'.u)) =>
             /\ tasks' = tasks
             /\ sessions' = sessions
             /\ Entries(message_counters') = Entries(message_counters)]_vars

\* C12 as amended: the same, except that a message of the user is dropped
\* when the user has no entry; when a later join or on_ready has created an
\* entry for the user again, the message is counted in that entry, and only
\* there.  In both cases no suspended update and no row changes.
C12_LeaveTakesCounts ==
    [][/\ LeaveTakesCounts
       /\ UpdateWritesCounts
       /\ (last'.op = "on_message" /\ last'.u \notin Bots) =>
             /\ tasks' = tasks
             /\ sessions' = sessions
             /\ IF HasEntry(message_counters, last'.g, last'.u)
                THEN \E c \in ChannelsOf(last'.g) :
                        Entries(message_counters') =
                           {IF e[1] = last'.g /\ e[2] = last'.u
                            THEN <<e[1], e[2], Bump(e[3], c)>>
                            ELSE e : e \in Entries(message_counters)}
                ELSE Entries(message_counters') = Entries(message_counters)]_vars

\* A message of a user who has left and has no entry is handled while the
\* user's update, carrying counts, is suspended.
C12_Witness ==
    /\ last.op = "on_message"
    /\ <<last.g, last.u>> \in Population \ present
    /\ ~HasEntry(message_counters, last.g, last.u)
    /\ \E i \in 1..Len(tasks) :
          /\ tasks[i].h = "on_member_remove"
          /\ tasks[i].g = last.g /\ tasks[i].u = last.u
          /\ tasks[i].channel_counts # EmptyMap

\* C13: when a store call fails its handler ends and the call is not issued
\* again; no row and no entry changes.  After a failed insert of
\* on_member_join the member has an empty entry and the row was not created;
\* after a failed update of on_member_remove the member has no entry and its
\* open rows are still open.  No handler stays suspended, so later events
\* are dispatched as before.
C13_StoreFailureNotRetried ==
    [][last'.op = "store_error" =>
          \E i \in 1..Len(tasks) :
             /\ tasks' = Without(tasks, i)
             /\ tasks' = <<>>
             /\ sessions' = sessions
             /\ message_counters' = message_counters
             /\ tasks[i].h = "on_member_join" =>
                   /\ <<tasks[i].g, tasks[i].u, EmptyMap>> \in Entries(message_counters')
                   /\ \A k \in RowsOf(tasks[i].g, tasks[i].u) :
                         sessions'[k].join_time # tasks[i].join_time
             /\ tasks[i].h = "on_member_remove" =>
                   /\ ~HasEntry(message_counters', tasks[i].g, tasks[i].u)
                   /\ \A k \in OpenRowsOf(tasks[i].g, tasks[i].u) :
                         sessions'[k].leave_time = Null]_vars

\* After a failed insert a message of the member was handled and counted:
\* the member has counts and no row.  Another member's update failed: its
\* row is open and it has no entry.
C13_Witness ==
    /\ last.op = "on_message"
    /\ tasks = <<>>
    /\ \E e \in Entries(message_counters) :
          /\ e[1] = last.g /\ e[2] = last.u
          /\ e[3] # EmptyMap
          /\ RowsOf(e[1], e[2]) = {}
    /\ \E p \in Population \ present :
          OpenRowsOf(p[1], p[2]) # {} /\ ~HasEntry(message_counters, p[1], p[2])

\* C14: a restart leaves the counter with no entry.  The update of
\* on_member_remove writes the messages handled since this process last
\* reset the member's entry (none, if it never did) and leaves the join_time
\* of the row it closes as it was.
C14_RestartLosesCounts ==
    [][/\ last'.op = "restart" => Entries(message_counters') = {}
       /\ (last'.op = "leave_update" /\ last'.row # 0) =>
             /\ last'.row \in OpenRowsOf(last'.g, last'.u)
             /\ sessions'[last'.row].join_time = sessions[last'.row].join_time
             /\ sessions'[last'.row].channel_counts =
                   Some(SentCounts(last'.g, last'.u))]_vars

\* The only row, opened at time 1, was open when on_ready began at time 2
\* after a restart; it is closed at time 3 with one message although three
\* were handled: the two handled before on_ready reset the member's entry
\* are missing.
C14_Witness ==
    /\ last.op = "leave_update"
    /\ last.row # 0
    /\ Len(sessions) = 1
    /\ sessions[last.row].join_time = 1
    /\ sessions[last.row].leave_time = 3
    /\ handled = 3
    /\ \E c \in {"11", "12", "21"} :
          sessions[last.row].channel_counts = Some([k \in {c} |-> 1])
    /\ \E p \in Population : sent[p] = NoWindow

\* C15: when no handler is suspended, a user who is not a member of the
\* guild (every join of the user was followed by a leave, and both handlers
\* have ended) has no open row in the guild.
C15_LeftMemberHasNoOpenRow ==
    tasks = <<>> =>
        \A p \in Population \ present : OpenRowsOf(p[1], p[2]) = {}

\* C16: when no handler is suspended, a user has an entry in the counter of
\* a guild exactly when the user has an open row in the guild.
C16_EntryIffOpenRow ==
    tasks = <<>> =>
        \A g \in Guilds, u \in Users :
            HasEntry(message_counters, g, u) <=> (OpenRowsOf(g, u) # {})

\* Every key of counts has a count of at least 1.
Positive(counts) == \A k \in DOMAIN counts : counts[k] >= 1

\* C17: every channel key in an entry of the counter, in the counts a
\* suspended update carries, and in the channel_counts of a row has a count
\* of at least 1: no key with 0, no negative count.
C17_CountsPositive ==
    /\ \A e \in Entries(message_counters) : Positive(e[3])
    /\ \A i \in 1..Len(tasks) :
          tasks[i].h = "on_member_remove" => Positive(tasks[i].channel_counts)
    /\ \A k \in 1..Len(sessions) :
          sessions[k].channel_counts # NoCounts => Positive(sessions[k].channel_counts[1])

\* A row was closed with a count of 2 for one channel and no key for another
\* channel of its guild, and a member with an entry has counts.
C17_Witness ==
    /\ \E k \in 1..Len(sessions) :
          /\ sessions[k].channel_counts # NoCounts
          /\ \E c \in DOMAIN sessions[k].channel_counts[1] :
                sessions[k].channel_counts[1][c] = 2
          /\ \E c \in ChannelsOf(sessions[k].guild_id) :
                Str(c) \notin DOMAIN sessions[k].channel_counts[1]
    /\ \E e \in Entries(message_counters) : e[3] # EmptyMap

=============================================================================
